---- MODULE Spec2Model ----
(***************************************************************************)
(* A model of src/src/detect_anomalies.py and of the caller that owns its  *)
(* argument and its result, followed by models of the loader               *)
(* (src/src/extract.py), the cleaner (src/src/clean.py) and the validator  *)
(* (src/src/validate.py), each with a specification of its own over the    *)
(* same variables.                                                         *)
(*                                                                         *)
(* A dataset (pandas DataFrame) is a record                                *)
(*     [index |-> <<label, ...>>, columns |-> <<column, ...>>]             *)
(* and a column is [name, dtype, values], dtype "number" or "object".      *)
(* A cell is a sequence: <<>> is a missing value (NaN), <<v>> holds v.     *)
(* Row r of the dataset is index[r] together with values[r] of each        *)
(* column; positions run from 1.                                           *)
(*                                                                         *)
(* Numbers.  The code computes in float64; the model computes the same     *)
(* quantities exactly, over integers, by scaling:                          *)
(*     med2  = 2 * median        diffs2 = 2 * |value - median|             *)
(*     q1x4  = 4 * Q1            q3x4   = 4 * Q3        iqrx4 = 4 * IQR    *)
(*     lower8 = 8 * lower fence  upper8 = 8 * upper fence                  *)
(*     meanN = n * mean          varNN  = n * n * variance (ddof = 0)      *)
(* so that every comparison of the code becomes a comparison of integers.  *)
(* One comparison is decided by rounding, the z-score of a value that lies *)
(* exactly 2 deviations from the mean: there the float64 operations of the *)
(* code are carried out (see "float64 arithmetic" below).                  *)
(***************************************************************************)
EXTENDS Integers, Sequences, FiniteSets, TLC

VARIABLES
    heap,          \* the objects of the process: heap[r] is the object with reference r
    df,            \* reference of the argument of the current or latest call
    ret,           \* <<>> while no call has returned, else <<r>>: the reference returned
    pc,            \* "idle", "loop" (inside the for loop), "done" (returned), "raised"
    numeric_cols,  \* positions of the numeric columns, in evaluation order (line 14)
    col_i,         \* how many entries of numeric_cols the for loop has finished
    anomaly_mask,  \* the accumulated mask: one BOOLEAN per row position (line 15)
    loc,           \* the locals of the latest loop iteration (lines 18-45); col_mask is
                   \* the set of mask entries that iteration wrote True into
    before,        \* the value of the argument when the call was made
    history,       \* one record per finished call: argument, mask and result as returned
    calls          \* number of calls made so far

vars == <<heap, df, ret, pc, numeric_cols, col_i, anomaly_mask, loc, before, history, calls>>

----------------------------------------------------------------------------
(* Bounds of the model and constants of the program *)

MaxRows == 6
MaxVal == 1
MaxCalls == 2

SmallSampleLimit == 5
DiffFactor == 3
FenceNum == 3
FenceDen == 2
ZLimit == 2

----------------------------------------------------------------------------
(* Cells and small helpers *)

NaN == <<>>
IsNa(c) == c = <<>>
Abs(x) == IF x < 0 THEN -x ELSE x

RECURSIVE SeqSum(_)
SeqSum(s) == IF s = <<>> THEN 0 ELSE Head(s) + SeqSum(Tail(s))

RECURSIVE Insert(_, _)
Insert(x, s) ==
    IF s = <<>> THEN <<x>>
    ELSE IF x <= Head(s) THEN <<x>> \o s
    ELSE <<Head(s)>> \o Insert(x, Tail(s))

RECURSIVE Sort(_)
Sort(s) == IF s = <<>> THEN <<>> ELSE Insert(Head(s), Sort(Tail(s)))

NRows(d) == Len(d.index)

NCols(d) == Len(d.columns)
Positions(n) == [i \in 1..n |-> i]

----------------------------------------------------------------------------
(* float64 arithmetic.  The z-score of line 43 is a quotient of rounded          *)
(* quantities: mean = sum / n, std = sqrt(sum((mean - x)^2) / n), each operation *)
(* rounded to 53 bits, to nearest, ties to even.  For the values of this model   *)
(* the rounding errors (about 10^-16) cannot move the quotient across 2.0        *)
(* unless it is 2 exactly; there the operations below decide, computed digit by  *)
(* digit as the hardware computes them.  Sums of fewer than 8 terms are added in *)
(* order, as numpy adds them.                                                    *)

Limb == 32768
LimbBits == 15
Precision == 53

\* 2^k for a small k
RECURSIVE Pow2(_)
Pow2(k) == IF k = 0 THEN 1 ELSE 2 * Pow2(k - 1)

\* a natural number of any size: its digits in base Limb, lowest first, no high zero
RECURSIVE Trim(_)
Trim(x) ==
    IF x = <<>> THEN <<>>
    ELSE IF x[Len(x)] = 0 THEN Trim(SubSeq(x, 1, Len(x) - 1)) ELSE x

RECURSIVE NatOf(_)
NatOf(i) == IF i = 0 THEN <<>> ELSE <<i % Limb>> \o NatOf(i \div Limb)

Rest(x) == IF x = <<>> THEN <<>> ELSE Tail(x)
Low(x) == IF x = <<>> THEN 0 ELSE x[1]

RECURSIVE AddCarry(_, _, _)
AddCarry(x, y, c) ==
    IF x = <<>> /\ y = <<>> THEN (IF c = 0 THEN <<>> ELSE <<c>>)
    ELSE LET t == Low(x) + Low(y) + c
         IN  <<t % Limb>> \o AddCarry(Rest(x), Rest(y), t \div Limb)
Add(x, y) == AddCarry(x, y, 0)

RECURSIVE SubBorrow(_, _, _)
SubBorrow(x, y, b) ==
    IF x = <<>> THEN <<>>
    ELSE LET t == x[1] - Low(y) - b
         IN  IF t < 0 THEN <<t + Limb>> \o SubBorrow(Tail(x), Rest(y), 1)
             ELSE <<t>> \o SubBorrow(Tail(x), Rest(y), 0)
Sub(x, y) == Trim(SubBorrow(x, y, 0))

RECURSIVE CmpFrom(_, _, _)
CmpFrom(x, y, i) ==
    IF i = 0 THEN 0
    ELSE IF x[i] # y[i] THEN (IF x[i] < y[i] THEN -1 ELSE 1)
    ELSE CmpFrom(x, y, i - 1)
Cmp(x, y) ==
    IF Len(x) # Len(y) THEN (IF Len(x) < Len(y) THEN -1 ELSE 1) ELSE CmpFrom(x, y, Len(x))

RECURSIVE MulCarry(_, _, _)
MulCarry(x, c, k) ==
    IF x = <<>> THEN (IF k = 0 THEN <<>> ELSE <<k>>)
    ELSE LET t == x[1] * c + k
         IN  <<t % Limb>> \o MulCarry(Tail(x), c, t \div Limb)
MulSmall(x, c) == IF c = 0 THEN <<>> ELSE MulCarry(x, c, 0)

RECURSIVE Mul(_, _)
Mul(x, y) ==
    IF x = <<>> \/ y = <<>> THEN <<>>
    ELSE Add(MulSmall(x, y[1]), IF Len(y) = 1 THEN <<>> ELSE <<0>> \o Mul(x, Tail(y)))

ShlBits(x, k) ==
    IF x = <<>> THEN <<>>
    ELSE [i \in 1..(k \div LimbBits) |-> 0] \o MulSmall(x, Pow2(k % LimbBits))

ShrBits(x, k) ==
    LET q == k \div LimbBits
        s == Pow2(k % LimbBits)
        y == IF q >= Len(x) THEN <<>> ELSE SubSeq(x, q + 1, Len(x))
    IN  Trim([i \in 1..Len(y) |->
                (y[i] \div s) + (IF i < Len(y) THEN (y[i + 1] % s) * (Limb \div s) ELSE 0)])

RECURSIVE SmallBitLen(_)
SmallBitLen(v) == IF v = 0 THEN 0 ELSE 1 + SmallBitLen(v \div 2)
BitLen(x) == IF x = <<>> THEN 0 ELSE LimbBits * (Len(x) - 1) + SmallBitLen(x[Len(x)])
IsOdd(x) == x # <<>> /\ x[1] % 2 = 1

\* floor(n / d), built from bit i downward on top of q
RECURSIVE DivTrial(_, _, _, _)
DivTrial(n, d, q, i) ==
    IF i < 0 THEN q
    ELSE IF Cmp(Mul(Add(q, ShlBits(<<1>>, i)), d), n) <= 0
         THEN DivTrial(n, d, Add(q, ShlBits(<<1>>, i)), i - 1)
         ELSE DivTrial(n, d, q, i - 1)

\* floor(sqrt(n)), built from bit i downward on top of q
RECURSIVE SqrtTrial(_, _, _)
SqrtTrial(n, q, i) ==
    IF i < 0 THEN q
    ELSE IF Cmp(Mul(Add(q, ShlBits(<<1>>, i)), Add(q, ShlBits(<<1>>, i))), n) <= 0
         THEN SqrtTrial(n, Add(q, ShlBits(<<1>>, i)), i - 1)
         ELSE SqrtTrial(n, q, i - 1)

\* round q * 2^e (plus a non-zero fraction below the unit of q when sticky) to 53 bits,
\* to nearest, ties to even
RoundNat(q, e, sticky) ==
    IF BitLen(q) <= Precision THEN [m |-> q, e |-> e]
    ELSE LET r    == BitLen(q) - Precision
             hi   == ShrBits(q, r)
             low  == Sub(q, ShlBits(hi, r))
             c    == Cmp(low, ShlBits(<<1>>, r - 1))
             up   == c > 0 \/ (c = 0 /\ (sticky \/ IsOdd(hi)))
         IN  [m |-> IF up THEN Add(hi, <<1>>) ELSE hi, e |-> e + r]

\* a float64 is m * 2^e with m below 2^53; an integer of the model is one exactly
FlOfInt(i) == [m |-> NatOf(i), e |-> 0]

FlDiv(x, y) ==
    IF x.m = <<>> THEN x
    ELSE LET k == Precision + 3 + BitLen(y.m) - BitLen(x.m)
             n == ShlBits(x.m, k)
             q == DivTrial(n, y.m, <<>>, Precision + 4)
         IN  RoundNat(q, x.e - y.e - k, Mul(q, y.m) # n)

FlMul(x, y) == RoundNat(Mul(x.m, y.m), x.e + y.e, FALSE)

Aligned(x, e) == ShlBits(x.m, x.e - e)
MinE(x, y) == IF x.e < y.e THEN x.e ELSE y.e

FlAdd(x, y) ==
    IF x.m = <<>> THEN y ELSE IF y.m = <<>> THEN x
    ELSE RoundNat(Add(Aligned(x, MinE(x, y)), Aligned(y, MinE(x, y))), MinE(x, y), FALSE)

FlAbsSub(x, y) ==
    IF x.m = <<>> THEN y ELSE IF y.m = <<>> THEN x
    ELSE LET a == Aligned(x, MinE(x, y))
             b == Aligned(y, MinE(x, y))
         IN  RoundNat(IF Cmp(a, b) >= 0 THEN Sub(a, b) ELSE Sub(b, a), MinE(x, y), FALSE)

FlSqrt(x) ==
    IF x.m = <<>> THEN x
    ELSE LET odd == x.e % 2 = 1
             m1  == IF odd THEN ShlBits(x.m, 1) ELSE x.m
             e1  == IF odd THEN x.e - 1 ELSE x.e
             t   == (2 * Precision + 7 - BitLen(m1)) \div 2
             n   == ShlBits(m1, 2 * t)
             q   == SqrtTrial(n, <<>>, Precision + 4)
         IN  RoundNat(q, (e1 \div 2) - t, Mul(q, q) # n)

\* x > k for a float x and an integer k of the model
FlAbove(x, k) ==
    IF x.e >= 0 THEN Cmp(ShlBits(x.m, x.e), NatOf(k)) > 0
    ELSE Cmp(x.m, ShlBits(NatOf(k), -x.e)) > 0

RECURSIVE FlSumFrom(_, _, _)
FlSumFrom(s, acc, i) == IF i > Len(s) THEN acc ELSE FlSumFrom(s, FlAdd(acc, s[i]), i + 1)
FlSum(s) == FlSumFrom(s, FlOfInt(0), 1)

\* col_data.mean() and col_data.std(ddof=0) of the values xs, as computed
FlMean(xs) == FlDiv(FlOfInt(SeqSum(xs)), FlOfInt(Len(xs)))
FlStd(xs) ==
    LET avg == FlMean(xs)
        sqr == [k \in 1..Len(xs) |->
                  LET dv == FlAbsSub(avg, FlOfInt(xs[k])) IN FlMul(dv, dv)]
    IN  FlSqrt(FlDiv(FlSum(sqr), FlOfInt(Len(xs))))

\* |(v - mean) / std| > 2.0 as computed, for a value v of the column xs
ComputedAbove(xs, v) ==
    FlAbove(FlDiv(FlAbsSub(FlOfInt(v), FlMean(xs)), FlStd(xs)), ZLimit)

\* v lies exactly 2 deviations from the mean of xs
ExactlyAtLimit(xs, v) ==
    LET n == Len(xs)
        s == SeqSum(xs)
    IN  /\ (n * v - s) * (n * v - s)
              = ZLimit * ZLimit * (n * SeqSum([k \in 1..n |-> xs[k] * xs[k]]) - s * s)
        /\ \E k \in 1..n : xs[k] # v

\* the columns over 0..MaxVal, and of them the values that lie exactly 2 deviations
\* from the mean and for which the computed quotient exceeds 2.0
SmallValued(xs) == Len(xs) <= MaxRows /\ \A k \in 1..Len(xs) : xs[k] \in 0..MaxVal
AboveAtLimit ==
    UNION {IF ExactlyAtLimit(c[1], c[2]) /\ ComputedAbove(c[1], c[2]) THEN {c} ELSE {} :
            c \in (UNION {[1..n -> 0..MaxVal] : n \in SmallSampleLimit..MaxRows})
                    \X (0..MaxVal)}

\* the comparison of line 45 for a value that is exactly 2 deviations from the mean
RoundsAbove(xs, v) ==
    IF SmallValued(xs) THEN <<xs, v>> \in AboveAtLimit ELSE ComputedAbove(xs, v)

----------------------------------------------------------------------------
(* pandas and numpy operations used by detect_anomalies *)

\* a variant of IsEmpty that looks at the columns only
IsEmptyOfColumns(d) == NCols(d) = 0

\* DataFrame.empty: true when any axis has length 0 (no rows, or no columns).
IsEmpty(d) == NRows(d) = 0 \/ NCols(d) = 0

\* df.select_dtypes(include="number").columns, as column positions in column order.
SelectNumber(d) == SelectSeq(Positions(NCols(d)), LAMBDA j : d.columns[j].dtype = "number")

\* pd.Series(False, index=df.index)
NewMask(d) == [i \in 1..NRows(d) |-> FALSE]

\* df[col].dropna(): the non-missing cells of column j, in row order, each with its label.
DropNa(d, j) ==
    LET keep == SelectSeq(Positions(NRows(d)), LAMBDA i : ~IsNa(d.columns[j].values[i]))
    IN  [k \in 1..Len(keep) |->
            [label |-> d.index[keep[k]], value |-> d.columns[j].values[keep[k]][1]]]

Values(col_data) == [k \in 1..Len(col_data) |-> col_data[k].value]

\* 2 * np.median(xs), for a non-empty xs.
Median2(xs) ==
    LET s == Sort(xs)
        n == Len(s)
    IN  IF n % 2 = 1 THEN 2 * s[(n + 1) \div 2] ELSE s[n \div 2] + s[n \div 2 + 1]

\* 2 * np.abs(col_data - med)
Diffs2(col_data) ==
    [k \in 1..Len(col_data) |-> Abs(2 * col_data[k].value - Median2(Values(col_data)))]

\* s[-k] of a numpy array: IndexError when k exceeds the length.
InRange(s, k) == k >= 1 /\ k <= Len(s)
FromEnd(s, k) == s[Len(s) + 1 - k]

RECURSIVE SeqMax(_)
SeqMax(s) == IF Len(s) = 1 THEN s[1]
             ELSE LET m == SeqMax(Tail(s)) IN IF s[1] >= m THEN s[1] ELSE m

\* diffs.idxmax(): the label of the first occurrence of the maximum.
IdxMax(col_data, diffs) ==
    LET first == CHOOSE k \in 1..Len(diffs) :
                    /\ diffs[k] = SeqMax(diffs)
                    /\ \A m \in 1..(k - 1) : diffs[m] # SeqMax(diffs)
    IN  col_data[first].label

\* anomaly_mask[outlier_idx] = True: a label-based assignment, which sets every
\* entry of the mask whose label is outlier_idx.
SetByLabel(mask, index, label) ==
    [i \in 1..Len(mask) |-> IF index[i] = label THEN TRUE ELSE mask[i]]

\* 4 * col_data.quantile(num/4), linear interpolation between the order statistics
\* around position (n - 1) * num / 4 (counted from 0).
Quantile4(xs, num) ==
    LET s  == Sort(xs)
        h4 == (Len(s) - 1) * num
        lo == h4 \div 4
        fr == h4 % 4
    IN  IF fr = 0 THEN 4 * s[lo + 1]
        ELSE 4 * s[lo + 1] + fr * (s[lo + 2] - s[lo + 1])

\* a variant of IqrMask that also flags a value lying on a fence
IqrMaskInclusive(d, j, lower8, upper8) ==
    [i \in 1..NRows(d) |->
        LET c == d.columns[j].values[i]
        IN  /\ ~IsNa(c)
            /\ \/ 4 * FenceDen * c[1] <= lower8
               \/ 4 * FenceDen * c[1] >= upper8]

\* a variant of IqrMask that flags nothing when the two fences coincide
IqrMaskWhenSpread(d, j, lower8, upper8) ==
    [i \in 1..NRows(d) |->
        LET c == d.columns[j].values[i]
        IN  /\ ~IsNa(c)
            /\ lower8 < upper8
            /\ \/ 4 * FenceDen * c[1] < lower8
               \/ 4 * FenceDen * c[1] > upper8]

\* (df[col] < lower) | (df[col] > upper), lower and upper scaled by 4 * FenceDen.
\* A comparison with a missing value is False.
IqrMask(d, j, lower8, upper8) ==
    [i \in 1..NRows(d) |->
        LET c == d.columns[j].values[i]
        IN  /\ ~IsNa(c)
            /\ \/ 4 * FenceDen * c[1] < lower8
               \/ 4 * FenceDen * c[1] > upper8]

\* a variant of ZScoreMask that also flags a value exactly 2.0 deviations away
ZScoreMaskInclusive(d, j, n, meanN, varNN) ==
    [i \in 1..NRows(d) |->
        LET c == d.columns[j].values[i]
        IN  /\ ~IsNa(c)
            /\ (n * c[1] - meanN) * (n * c[1] - meanN) >= ZLimit * ZLimit * varNN]

\* a variant of ZScoreMask with the limit at one deviation
ZScoreMaskOneDeviation(d, j, n, meanN, varNN) ==
    [i \in 1..NRows(d) |->
        LET c == d.columns[j].values[i]
        IN  /\ ~IsNa(c)
            /\ (n * c[1] - meanN) * (n * c[1] - meanN) > varNN]

\* z_scores.abs() > 2.0 with z_scores = (df[col] - mean) / std, for std > 0:
\* |v - mean| / std > 2  iff  (n*v - meanN)^2 > 2^2 * varNN; when the two sides are
\* equal the quotient is 2 exactly and its float64 rounding decides.
ZScoreMask(d, j, n, meanN, varNN) ==
    [i \in 1..NRows(d) |->
        LET c == d.columns[j].values[i]
        IN  /\ ~IsNa(c)
            /\ \/ (n * c[1] - meanN) * (n * c[1] - meanN) > ZLimit * ZLimit * varNN
               \/ /\ (n * c[1] - meanN) * (n * c[1] - meanN) = ZLimit * ZLimit * varNN
                  /\ RoundsAbove(Values(DropNa(d, j)), c[1])]

\* the z_mask of lines 41-45
ZMask(d, j, n, meanN, varNN) ==
    IF varNN > 0 THEN ZScoreMask(d, j, n, meanN, varNN) ELSE NewMask(d)

MaskOr(a, b) == [i \in 1..Len(a) |-> a[i] \/ b[i]]

\* a variant of Accumulate that assigns instead of or-ing
AccumulateOverwriting(mask, col_mask) == col_mask

\* line 47: anomaly_mask |= iqr_mask | z_mask
Accumulate(mask, col_mask) == MaskOr(mask, col_mask)

\* a variant of BoolIndex that relabels the rows it keeps 0, 1, ...
BoolIndexRelabelled(d, mask) ==
    LET keep == SelectSeq(Positions(NRows(d)), LAMBDA i : mask[i])
    IN  [index   |-> [k \in 1..Len(keep) |-> k - 1],
         columns |-> [j \in 1..NCols(d) |->
                        [name   |-> d.columns[j].name,
                         dtype  |-> d.columns[j].dtype,
                         values |-> [k \in 1..Len(keep) |-> d.columns[j].values[keep[k]]]]]]

\* a variant of BoolIndex that keeps, ahead of the rows selected now, the rows an
\* earlier call returned (a result list shared between invocations)
BoolIndexKeepingEarlier(d, mask) ==
    LET keep    == SelectSeq(Positions(NRows(d)), LAMBDA i : mask[i])
        earlier == IF history = <<>> THEN 0 ELSE NRows(history[Len(history)].output)
        row(k)  == IF k <= earlier THEN keep[((k - 1) % Len(keep)) + 1] ELSE keep[k - earlier]
        total   == IF Len(keep) = 0 THEN 0 ELSE earlier + Len(keep)
    IN  [index   |-> [k \in 1..total |-> d.index[row(k)]],
         columns |-> [j \in 1..NCols(d) |->
                        [name   |-> d.columns[j].name,
                         dtype  |-> d.columns[j].dtype,
                         values |-> [k \in 1..total |-> d.columns[j].values[row(k)]]]]]

\* df[anomaly_mask]: the rows whose mask entry is True, in row order, all columns kept.
BoolIndex(d, mask) ==
    LET keep == SelectSeq(Positions(NRows(d)), LAMBDA i : mask[i])
    IN  [index   |-> [k \in 1..Len(keep) |-> d.index[keep[k]]],
         columns |-> [j \in 1..NCols(d) |->
                        [name   |-> d.columns[j].name,
                         dtype  |-> d.columns[j].dtype,
                         values |-> [k \in 1..Len(keep) |-> d.columns[j].values[keep[k]]]]]]

\* a variant of CopyFrame that hands back the frame itself
CopyFrameAliased(h, r) == [heap |-> h, ref |-> r]

\* frame.copy(): a new object with the same contents.
CopyFrame(h, r) == [heap |-> Append(h, h[r]), ref |-> Len(h) + 1]

----------------------------------------------------------------------------
(* The body of the for loop, lines 17-47 *)

NoLocals ==
    [col |-> 0, n |-> 0, rule |-> "none", outlier_idx |-> <<>>,
     iqr_mask |-> <<>>, z_mask |-> <<>>, col_mask |-> <<>>, raised |-> FALSE]

\* line 22: if n < 5
UseSmallRule(n) == n < SmallSampleLimit

\* a variant of HasTwoPoints that lets a single value through
HasOnePoint(diffs) == Len(diffs) >= 1

\* line 26: if len(diffs) > 1
HasTwoPoints(diffs) == Len(diffs) > 1

\* line 28: sorted_diffs[-1] > 3 * sorted_diffs[-2]
Dominates(sorted_diffs) == FromEnd(sorted_diffs, 1) > DiffFactor * FromEnd(sorted_diffs, 2)

\* lines 23-31: the small-sample rule on column j; the mask and the locals it leaves.
SmallSample(d, j, mask) ==
    LET col_data     == DropNa(d, j)
        diffs        == Diffs2(col_data)
        sorted_diffs == Sort(diffs)
        base == [NoLocals EXCEPT !.col = j, !.n = Len(col_data), !.rule = "small",
                                 !.col_mask = NewMask(d)]
    IN  IF ~HasTwoPoints(diffs) THEN [mask |-> mask, loc |-> base]
        ELSE IF ~InRange(sorted_diffs, 2)
             THEN [mask |-> mask, loc |-> [base EXCEPT !.raised = TRUE]]
        ELSE IF ~Dominates(sorted_diffs) THEN [mask |-> mask, loc |-> base]
        ELSE LET outlier_idx == IdxMax(col_data, diffs)
             IN  [mask |-> SetByLabel(mask, d.index, outlier_idx),
                  loc  |-> [base EXCEPT !.outlier_idx = <<outlier_idx>>,
                                        !.col_mask = SetByLabel(NewMask(d), d.index, outlier_idx)]]

\* lines 34-47: the IQR rule and the z-score rule on column j.
LargeSample(d, j, mask) ==
    LET col_data == DropNa(d, j)
        xs     == Values(col_data)
        n      == Len(xs)
        q1x4   == Quantile4(xs, 1)
        q3x4   == Quantile4(xs, 3)
        iqrx4  == q3x4 - q1x4
        lower8 == FenceDen * q1x4 - FenceNum * iqrx4
        upper8 == FenceDen * q3x4 + FenceNum * iqrx4
        iqr_mask == IqrMask(d, j, lower8, upper8)
        meanN  == SeqSum(xs)
        varNN  == n * SeqSum([k \in 1..n |-> xs[k] * xs[k]]) - meanN * meanN
        z_mask == ZMask(d, j, n, meanN, varNN)
    IN  [mask |-> Accumulate(mask, MaskOr(iqr_mask, z_mask)),
         loc  |-> [NoLocals EXCEPT !.col = j, !.n = n, !.rule = "large",
                                   !.iqr_mask = iqr_mask, !.z_mask = z_mask,
                                   !.col_mask = MaskOr(iqr_mask, z_mask)]]

\* one iteration: the rule is chosen by the count of non-missing values (lines 18-22)
Iteration(d, j, mask) ==
    IF UseSmallRule(Len(DropNa(d, j))) THEN SmallSample(d, j, mask)
    ELSE LargeSample(d, j, mask)

----------------------------------------------------------------------------
(* What the caller does with a dataset *)

Perms(n) == {p \in [1..n -> 1..n] : \A a, b \in 1..n : a # b => p[a] # p[b]}

\* the same rows with the columns in another order
Reorder(d, p) == [index |-> d.index, columns |-> [j \in 1..NCols(d) |-> d.columns[p[j]]]]

HasColumn(d, name) == \E j \in 1..NCols(d) : d.columns[j].name = name

\* frame["reviewed"] = "yes": a write into the frame, which gains a column
AddColumn(d, name) ==
    [index   |-> d.index,
     columns |-> Append(d.columns,
                    [name |-> name, dtype |-> "object",
                     values |-> [i \in 1..NRows(d) |-> <<"yes">>]])]

----------------------------------------------------------------------------
(* The datasets the caller may hold *)

Cells == {NaN} \cup {<<v>> : v \in 0..MaxVal}

\* row labels: 0..n-1 as read from a file; with gaps, after rows were filtered
\* out upstream; and with repeated labels, as after a concatenation of frames
RangeIndex(n)    == [i \in 1..n |-> i - 1]
FilteredIndex(n) == [i \in 1..n |-> 2 * i + 1]
RepeatedIndex(n) == [i \in 1..n |-> (i - 1) \div 2]
Indexes(n) == {RangeIndex(n), FilteredIndex(n), RepeatedIndex(n)}

PlayerNames == <<"A", "B", "C", "D", "E", "F", "G", "H", "I", "J">>

TextColumn(n) ==
    [name |-> "player_name", dtype |-> "object",
     values |-> [i \in 1..n |-> <<PlayerNames[i]>>]]

NumberColumn(name, cells) == [name |-> name, dtype |-> "number", values |-> cells]

\* every column of n cells; and the columns with at most k cells other than 0
Columns(n) == [1..n -> Cells]
NearZero(n, k) ==
    UNION {{[i \in 1..n |-> IF i \in S THEN g[i] ELSE <<0>>] : g \in [S -> Cells \ {<<0>>}]} :
            S \in {T \in SUBSET (1..n) : Cardinality(T) <= k}}

Frame(idx, cols) == [index |-> idx, columns |-> cols]

\* the datasets of tests/test_anomalies.py; one with seven values in which the
\* largest value lies on the upper fence and more than two deviations from the mean;
\* and two with five values of which one lies exactly two deviations from the mean
Fixture(points) ==
    [index   |-> RangeIndex(Len(points)),
     columns |-> <<TextColumn(Len(points)),
                   NumberColumn("points_per_game", [i \in 1..Len(points) |-> <<points[i]>>])>>]

Fixtures ==
    {Fixture(<<20, 22, 100>>), Fixture(<<20, 21, 22>>), Fixture(<<0, 0, 0, 0, 1, 3, 5>>),
     Fixture(<<21, 0, 0, 0, 0>>), Fixture(<<0, 0, 0, 0, 21>>)}


----------------------------------------------------------------------------
(* The state machine *)

\* the caller holds dataset d and has not called yet
Start(d) ==
    /\ heap = <<d>>
    /\ df = 1
    /\ ret = <<>>
    /\ pc = "idle"
    /\ numeric_cols = <<>>
    /\ col_i = 0
    /\ anomaly_mask = <<>>
    /\ loc = NoLocals
    /\ before = d
    /\ history = <<>>
    /\ calls = 0

\* Every shape of dataset: no column, a text column alone, a number column with or
\* without a text column beside it, two number columns; with each kind of row labels.
Init ==
    \/ \E d \in Fixtures : Start(d)
    \/ \E n \in 0..MaxRows : \E idx \in Indexes(n) :
          \/ Start(Frame(idx, <<>>))
          \/ Start(Frame(idx, <<TextColumn(n)>>))
          \/ \E a \in Columns(n) :
                Start(Frame(idx, <<TextColumn(n), NumberColumn("points_per_game", a)>>))
          \/ \E a \in NearZero(n, 1) :
                Start(Frame(idx, <<NumberColumn("points_per_game", a)>>))
          \/ \E a \in NearZero(n, 2), b \in NearZero(n, 1) :
                Start(Frame(idx, <<TextColumn(n), NumberColumn("points_per_game", a),
                                   NumberColumn("rebounds_per_game", b)>>))

\* The datasets on which the caller repeats the call: one, two and three columns.
InitAgain ==
    \/ \E d \in Fixtures : Start(d)
    \/ \E n \in 0..MaxRows :
          \/ \E idx \in Indexes(n) :
                \/ Start(Frame(idx, <<>>))
                \/ \E a \in NearZero(n, 2) :
                      Start(Frame(idx, <<TextColumn(n), NumberColumn("points_per_game", a)>>))
          \/ \E a \in NearZero(n, 1), b \in NearZero(n, 1) :
                Start(Frame(FilteredIndex(n),
                            <<TextColumn(n), NumberColumn("points_per_game", a),
                              NumberColumn("rebounds_per_game", b)>>))
          \/ \E a \in NearZero(n, 2), b \in NearZero(n, 1) :
                Start(Frame(RangeIndex(n), <<NumberColumn("points_per_game", a),
                                             NumberColumn("rebounds_per_game", b)>>))

\* lines 11-12: the early return of a copy of an empty frame
ReturnEmpty ==
    LET cp == CopyFrame(heap, df)
    IN  /\ heap' = cp.heap
        /\ ret' = <<cp.ref>>
        /\ pc' = "done"
        /\ history' = Append(history,
                        [input |-> heap[df], path |-> "empty", mask |-> <<>>,
                         output |-> cp.heap[cp.ref]])
        /\ UNCHANGED <<numeric_cols, col_i, anomaly_mask, loc>>

\* lines 14-15: the start of the normal path
EnterLoop ==
    /\ numeric_cols' = SelectNumber(heap[df])
    /\ anomaly_mask' = NewMask(heap[df])
    /\ col_i' = 0
    /\ loc' = NoLocals
    /\ pc' = "loop"
    /\ UNCHANGED <<heap, ret, history>>

\* detect_anomalies(df) is called: lines 11-15
Call ==
    /\ pc = "idle"
    /\ calls' = calls + 1
    /\ before' = heap[df]
    /\ IF IsEmpty(heap[df]) THEN ReturnEmpty ELSE EnterLoop
    /\ UNCHANGED df

\* one iteration of the for loop over numeric_cols: lines 17-47
LoopStep ==
    /\ pc = "loop"
    /\ col_i < Len(numeric_cols)
    /\ LET r == Iteration(heap[df], numeric_cols[col_i + 1], anomaly_mask)
       IN  /\ anomaly_mask' = r.mask
           /\ loc' = r.loc
           /\ pc' = IF r.loc.raised THEN "raised" ELSE "loop"
    /\ col_i' = col_i + 1
    /\ UNCHANGED <<heap, df, ret, numeric_cols, before, history, calls>>

\* line 49: return df[anomaly_mask].copy()
Return ==
    /\ pc = "loop"
    /\ col_i = Len(numeric_cols)
    /\ LET selected == Append(heap, BoolIndex(heap[df], anomaly_mask))
           cp       == CopyFrame(selected, Len(selected))
       IN  /\ heap' = cp.heap
           /\ ret' = <<cp.ref>>
           /\ history' = Append(history,
                           [input |-> heap[df], path |-> "loop", mask |-> anomaly_mask,
                            output |-> cp.heap[cp.ref]])
    /\ pc' = "done"
    /\ UNCHANGED <<df, numeric_cols, col_i, anomaly_mask, loc, before, calls>>

\* the caller writes into the dataset it was returned
CallerWritesResult ==
    /\ pc = "done"
    /\ ~HasColumn(heap[ret[1]], "reviewed")
    /\ heap' = [heap EXCEPT ![ret[1]] = AddColumn(@, "reviewed")]
    /\ UNCHANGED <<df, ret, pc, numeric_cols, col_i, anomaly_mask, loc, before, history, calls>>

\* the caller drops the result and prepares another call, on the same dataset or on
\* the same dataset with its columns in another order; the finished call's frame is gone
CallerCallsAgain ==
    /\ pc = "done"
    /\ calls < MaxCalls
    /\ \E p \in Perms(NCols(heap[df])) : heap' = <<Reorder(heap[df], p)>>
    /\ df' = 1
    /\ ret' = <<>>
    /\ pc' = "idle"
    /\ numeric_cols' = <<>>
    /\ col_i' = 0
    /\ anomaly_mask' = <<>>
    /\ loc' = NoLocals
    /\ UNCHANGED <<before, history, calls>>

\* one call, and what the caller does with its result
Next == Call \/ LoopStep \/ Return \/ CallerWritesResult

Spec == Init /\ [][Next]_vars

\* repeated calls
NextAgain == Call \/ LoopStep \/ Return \/ CallerWritesResult \/ CallerCallsAgain

SpecAgain == InitAgain /\ [][NextAgain]_vars

----------------------------------------------------------------------------
(* Vocabulary of the properties: rows, per-column rules, results *)

Rows(d) == 1..NRows(d)
NumberCols(d) == {j \in 1..NCols(d) : d.columns[j].dtype = "number"}
Present(d, j) == {i \in Rows(d) : d.columns[j].values[i] # NaN}
Count(d, j) == Cardinality(Present(d, j))
At(d, j, i) == d.columns[j].values[i][1]
PresentValues(d, j) == Values(DropNa(d, j))
UniqueLabels(d) == \A a, b \in Rows(d) : d.index[a] = d.index[b] => a = b
True(mask) == {i \in 1..Len(mask) : mask[i]}

Largest(S) == CHOOSE x \in S : \A y \in S : y <= x

\* twice the distance of row i's value from the median of the column
Dist2(d, j, i) == Abs(2 * At(d, j, i) - Median2(PresentValues(d, j)))
DMax2(d, j) == Largest({Dist2(d, j, i) : i \in Present(d, j)})
\* the second largest distance: the largest once one row attaining d_max is set aside
DSecond2(d, j) ==
    LET top == CHOOSE i \in Present(d, j) : Dist2(d, j, i) = DMax2(d, j)
    IN  Largest({Dist2(d, j, i) : i \in Present(d, j) \ {top}})

\* the rows the small-sample rule is to flag
SmallRule(d, j) ==
    IF Count(d, j) >= 2 /\ DMax2(d, j) > 3 * DSecond2(d, j)
    THEN {i \in Present(d, j) : Dist2(d, j, i) = DMax2(d, j)}
    ELSE {}

\* the rows the IQR rule is to flag: v < Q1 - 1.5*IQR or v > Q3 + 1.5*IQR, times 8
IqrRule(d, j) ==
    LET q1 == Quantile4(PresentValues(d, j), 1)
        q3 == Quantile4(PresentValues(d, j), 3)
    IN  {i \in Present(d, j) :
            \/ 8 * At(d, j, i) < 2 * q1 - 3 * (q3 - q1)
            \/ 8 * At(d, j, i) > 2 * q3 + 3 * (q3 - q1)}

\* the rows the z-score rule is to flag.  With n values of sum s, the deviation of v
\* from the mean is (n*v - s) / n and the population variance is dev / n^3, where
\* dev is the sum of the (n*x - s)^2; so |v - mean| / std > 2 iff n*(n*v - s)^2 > 4*dev.
\* At equality the quotient is 2 exactly, and what float64 makes of it decides.
ZRule(d, j) ==
    LET xs  == PresentValues(d, j)
        n   == Len(xs)
        s   == SeqSum(xs)
        dev == SeqSum([k \in 1..n |-> (n * xs[k] - s) * (n * xs[k] - s)])
    IN  {i \in Present(d, j) :
            /\ dev > 0
            /\ \/ n * (n * At(d, j, i) - s) * (n * At(d, j, i) - s) > 4 * dev
               \/ /\ n * (n * At(d, j, i) - s) * (n * At(d, j, i) - s) = 4 * dev
                  /\ RoundsAbove(xs, At(d, j, i))}

\* the rows column j is to flag, by the count of its non-missing values
ColumnRule(d, j) ==
    IF Count(d, j) < 5 THEN SmallRule(d, j) ELSE IqrRule(d, j) \cup ZRule(d, j)

RECURSIVE Ascending(_)
Ascending(S) ==
    IF S = {} THEN <<>>
    ELSE LET m == CHOOSE x \in S : \A y \in S : x <= y IN <<m>> \o Ascending(S \ {m})

\* the rows of d at the positions S, in the order of d, with labels and values kept
Take(d, S) ==
    LET at == Ascending(S)
    IN  [index   |-> [k \in 1..Len(at) |-> d.index[at[k]]],
         columns |-> [j \in 1..NCols(d) |->
                        [d.columns[j] EXCEPT
                            !.values = [k \in 1..Len(at) |-> d.columns[j].values[at[k]]]]]]

Returned == pc = "done"
Latest == history[Len(history)]
\* the loop has just finished an iteration, on column loc.col of the argument
Iterated == pc \in {"loop", "done"} /\ loc.rule # "none"

\* the positions of the argument's rows that make up the result of the latest call
ReturnedRows ==
    IF Latest.path = "empty" THEN Rows(Latest.output) ELSE True(Latest.mask)

----------------------------------------------------------------------------
(* Properties *)

\* C1: for a dataset with unique row labels, the rows returned are exactly the rows
\* that some numeric column flags under the rule chosen by its non-missing count.
FlaggedRowsReturned ==
    Returned /\ UniqueLabels(before) =>
        Latest.output = Take(before, UNION {ColumnRule(before, j) : j \in NumberCols(before)})

\* C1 holds of every dataset that has at least one column.
FlaggedRowsReturnedGivenColumns ==
    Returned /\ UniqueLabels(before) /\ NCols(before) > 0 =>
        Latest.output = Take(before, UNION {ColumnRule(before, j) : j \in NumberCols(before)})

\* C2: a column with fewer than 5 non-missing values flags exactly the one row that
\* attains d_max when it has 2 or more values and d_max > 3 * d_second, and no row
\* otherwise; [20, 22, 100] flags the row of 100 only, [20, 21, 22] flags nothing.
SmallRuleFlagsOneRow ==
    Iterated /\ Count(before, loc.col) < 5 =>
        /\ loc.rule = "small"
        /\ True(loc.col_mask) = SmallRule(before, loc.col)
        /\ Cardinality(True(loc.col_mask)) <= 1
        /\ before = Fixture(<<20, 22, 100>>) => True(loc.col_mask) = {3}
        /\ before = Fixture(<<20, 21, 22>>) => True(loc.col_mask) = {}

\* C2 holds of every dataset whose row labels are unique.
SmallRuleFlagsOneRowGivenUniqueLabels ==
    UniqueLabels(before) => SmallRuleFlagsOneRow

\* C3: in a column with 5 or more non-missing values the IQR rule flags exactly the
\* rows whose value is present and strictly below Q1 - 1.5*IQR or strictly above
\* Q3 + 1.5*IQR; a value on a fence is not flagged.
IqrRuleFlags ==
    Iterated /\ Count(before, loc.col) >= 5 =>
        /\ loc.rule = "large"
        /\ True(loc.iqr_mask) = IqrRule(before, loc.col)

\* some row is flagged while a value that lies on the upper fence is not, in a
\* column that has a missing value
IqrRuleFlagsWitness ==
    /\ Iterated
    /\ loc.rule = "large"
    /\ True(loc.iqr_mask) # {}
    /\ Present(before, loc.col) # Rows(before)
    /\ \E i \in Present(before, loc.col) :
          /\ ~loc.iqr_mask[i]
          /\ 8 * At(before, loc.col, i) =
                5 * Quantile4(PresentValues(before, loc.col), 3)
                - 3 * Quantile4(PresentValues(before, loc.col), 1)

\* C4: in a column with 5 or more non-missing values the z-score rule flags exactly
\* the rows whose value is present and more than 2.0 population standard deviations
\* from the mean, and no row when the standard deviation is zero.
ZScoreRuleFlags ==
    Iterated /\ Count(before, loc.col) >= 5 =>
        /\ loc.rule = "large"
        /\ True(loc.z_mask) = ZRule(before, loc.col)

\* the z-score rule flags a row that the IQR rule does not
ZScoreRuleFlagsWitness ==
    /\ Iterated
    /\ loc.rule = "large"
    /\ \E i \in Rows(before) : loc.z_mask[i] /\ ~loc.iqr_mask[i]

\* C5: the rule is chosen by the count of non-missing values, a column never flags a
\* row whose value in it is missing, and a row whose value is missing in every
\* numeric column is not returned.
MissingNeverFlagged ==
    /\ Iterated =>
          /\ loc.n = Count(before, loc.col)
          /\ loc.rule = "small" <=> Count(before, loc.col) < 5
          /\ \A i \in Rows(before) \ Present(before, loc.col) : ~loc.col_mask[i]
    /\ Returned =>
          \A i \in ReturnedRows : \E j \in NumberCols(before) : i \in Present(before, j)

\* C5 holds of every dataset with unique row labels and at least one column.
MissingNeverFlaggedGivenUniqueLabels ==
    UniqueLabels(before) /\ NCols(before) > 0 => MissingNeverFlagged

\* C6: a dataset with zero rows is returned as a dataset with zero rows and the
\* same columns, without an exception and without any rule being evaluated.
EmptyInputReturnsEmpty ==
    calls >= 1 /\ NRows(before) = 0 =>
        /\ pc = "done"
        /\ col_i = 0 /\ loc.rule = "none"
        /\ NRows(Latest.output) = 0
        /\ NCols(Latest.output) = NCols(before)
        /\ \A j \in 1..NCols(before) :
              /\ Latest.output.columns[j].name = before.columns[j].name
              /\ Latest.output.columns[j].dtype = before.columns[j].dtype

\* a dataset with zero rows and a numeric column has been returned
EmptyInputReturnsEmptyWitness ==
    Returned /\ NRows(before) = 0 /\ NumberCols(before) # {} /\ NRows(Latest.output) = 0

\* C7: the result is a subsequence of the input's rows, with the input's columns:
\* each returned row is an input row with its label and values, rows keep their
\* order, and no input row is returned twice.
OutputIsSubsequence ==
    \A h \in 1..Len(history) :
        \E S \in SUBSET Rows(history[h].input) :
            history[h].output = Take(history[h].input, S)

\* a row flagged by the IQR rule and by the z-score rule is returned, and some row is not
OutputIsSubsequenceWitness ==
    /\ Returned
    /\ loc.rule = "large"
    /\ \E i \in Rows(before) : loc.iqr_mask[i] /\ loc.z_mask[i]
    /\ NRows(Latest.output) >= 1
    /\ NRows(Latest.output) < NRows(before)

\* C8: the argument is unchanged by the call and by whatever the caller then does to
\* the result, which is another object than the argument, on both return paths.
InputUntouched ==
    calls >= 1 =>
        /\ heap[df] = before
        /\ Returned => ret[1] # df

\* the caller has written into a result that came from the early return
InputUntouchedWitness ==
    /\ Returned
    /\ Latest.path = "empty"
    /\ HasColumn(heap[ret[1]], "reviewed")
    /\ ~HasColumn(heap[df], "reviewed")

\* C9: the mask does not depend on the order of the columns: two calls on datasets
\* that differ only in the order of their columns end with the same mask.
Reordered(x, y) == NCols(x) = NCols(y) /\ \E p \in Perms(NCols(x)) : y = Reorder(x, p)

ColumnOrderIrrelevant ==
    \A a, b \in 1..Len(history) :
        Reordered(history[a].input, history[b].input) =>
            history[a].mask = history[b].mask

NumberNames(d) == [k \in 1..Len(SelectNumber(d)) |-> d.columns[SelectNumber(d)[k]].name]

\* two calls have evaluated two numeric columns in opposite orders, and two rows are flagged
ColumnOrderIrrelevantWitness ==
    /\ Len(history) >= 2
    /\ Len(NumberNames(history[1].input)) = 2
    /\ NumberNames(history[2].input)[1] = NumberNames(history[1].input)[2]
    /\ Cardinality(True(history[2].mask)) >= 2

\* C10: two calls on the same dataset return the same rows: a call's result depends
\* on its argument alone.
SameInputSameResult ==
    \A a, b \in 1..Len(history) :
        history[a].input = history[b].input =>
            /\ history[a].output = history[b].output
            /\ history[a].mask = history[b].mask

\* the second of two calls on the same dataset has returned a row
SameInputSameResultWitness ==
    /\ Len(history) >= 2
    /\ history[1].input = history[2].input
    /\ NRows(history[2].output) >= 1
    /\ NRows(history[2].output) < NRows(history[2].input)

\* the non-missing values of column j are all the same: none, one, or several equal
Degenerate(d, j) == \A a, b \in Present(d, j) : At(d, j, a) = At(d, j, b)

\* the rows column j flags when it is evaluated alone, as the loop body computes them
FlagsAlone(d, j) == True(Iteration(d, j, NewMask(d)).loc.col_mask)

\* C11: a numeric column whose values are all missing, which has one non-missing
\* value, or whose non-missing values are all equal (any count) raises nothing and
\* flags no row, and the call returns the rows flagged by the other columns.
DegenerateColumnsFlagNothing ==
    /\ pc # "raised"
    /\ Iterated /\ Degenerate(before, loc.col) =>
          /\ ~loc.raised
          /\ True(loc.col_mask) = {}
    /\ Returned /\ (\E j \in NumberCols(before) : Degenerate(before, j)) =>
          ReturnedRows =
              UNION {FlagsAlone(before, j) :
                        j \in {k \in NumberCols(before) : ~Degenerate(before, k)}}

\* a column of five or more equal values stands beside a column that flags a row,
\* and that row is returned
DegenerateColumnsFlagNothingWitness ==
    /\ Returned
    /\ \E j \in NumberCols(before) : Degenerate(before, j) /\ Count(before, j) >= 5
    /\ \E j \in NumberCols(before) : ~Degenerate(before, j)
    /\ NRows(Latest.output) >= 1

\* C16: a dataset with at least one row and no numeric column (text columns only,
\* or no column at all) is answered with a dataset of zero rows.
NoNumberColumnReturnsNothing ==
    Returned /\ NRows(before) >= 1 /\ NumberCols(before) = {} =>
        NRows(Latest.output) = 0

\* C16 holds of every dataset that has at least one column.
NoNumberColumnReturnsNothingGivenColumns ==
    NCols(before) > 0 => NoNumberColumnReturnsNothing

\* two or more rows of column j attain the maximum distance from the median
TiedForMaximum(d, j) ==
    \E a, b \in Present(d, j) :
        a # b /\ Dist2(d, j, a) = DMax2(d, j) /\ Dist2(d, j, b) = DMax2(d, j)

\* C17: a row flagged by the small-sample rule lies strictly farther from the median
\* than every other non-missing value of the column; a column in which two or more
\* values tie for the maximum distance flags no row, and a column with exactly 2
\* non-missing values flags no row.
SmallRuleMaximumIsUnique ==
    Iterated /\ loc.rule = "small" =>
        /\ \A i \in True(loc.col_mask) :
              /\ i \in Present(before, loc.col)
              /\ \A k \in Present(before, loc.col) \ {i} :
                    Dist2(before, loc.col, i) > Dist2(before, loc.col, k)
        /\ TiedForMaximum(before, loc.col) => True(loc.col_mask) = {}
        /\ Count(before, loc.col) = 2 => True(loc.col_mask) = {}

\* C17 holds of every dataset whose row labels are unique.
SmallRuleMaximumIsUniqueGivenUniqueLabels ==
    UniqueLabels(before) => SmallRuleMaximumIsUnique

\* the quartiles of column j coincide: Q1 = Q3, so IQR = 0
QuartilesCoincide(d, j) ==
    Quantile4(PresentValues(d, j), 1) = Quantile4(PresentValues(d, j), 3)

\* C19: in a column with 5 or more non-missing values whose quartiles coincide and
\* whose values are not all equal, the IQR rule flags every row whose non-missing
\* value differs from Q1, and no other row.
ZeroIqrFlagsEveryOtherValue ==
    Iterated /\ Count(before, loc.col) >= 5 /\ QuartilesCoincide(before, loc.col)
             /\ ~Degenerate(before, loc.col) =>
        /\ loc.rule = "large"
        /\ True(loc.iqr_mask) =
              {i \in Present(before, loc.col) :
                  4 * At(before, loc.col, i) # Quantile4(PresentValues(before, loc.col), 1)}
        /\ True(loc.iqr_mask) # {}

\* the quartiles coincide and a value one away from Q1 is flagged, beside a missing one
ZeroIqrFlagsEveryOtherValueWitness ==
    /\ Iterated
    /\ Count(before, loc.col) >= 5
    /\ Count(before, loc.col) < NRows(before)
    /\ QuartilesCoincide(before, loc.col)
    /\ \E i \in True(loc.iqr_mask) :
          Abs(4 * At(before, loc.col, i) - Quantile4(PresentValues(before, loc.col), 1)) = 4

\* C18: a column with exactly 5 non-missing values gets no flag from the z-score
\* rule, whatever its values, so that every row it flags is flagged by the IQR rule;
\* the z-score rule adds a flag only in columns with 6 or more non-missing values.
FiveValuesNoZScoreFlag ==
    /\ Iterated /\ Count(before, loc.col) = 5 =>
          /\ loc.rule = "large"
          /\ True(loc.z_mask) = {}
          /\ loc.col_mask = loc.iqr_mask
    /\ Iterated /\ loc.rule = "large" /\ ~(True(loc.z_mask) \subseteq True(loc.iqr_mask)) =>
          Count(before, loc.col) >= 6

\* C18 as it holds: in a column with exactly 5 non-missing values every row flagged
\* by the z-score rule is flagged by the IQR rule too (the z-score rule may flag a
\* value that lies exactly 2 deviations from the mean, when the computed quotient
\* rounds above 2.0), so the z-score rule adds a flag only in columns with 6 or more.
FiveValuesZScoreAddsNothing ==
    /\ Iterated /\ Count(before, loc.col) = 5 =>
          /\ loc.rule = "large"
          /\ True(loc.z_mask) \subseteq True(loc.iqr_mask)
          /\ loc.col_mask = loc.iqr_mask
    /\ Iterated /\ loc.rule = "large" /\ ~(True(loc.z_mask) \subseteq True(loc.iqr_mask)) =>
          Count(before, loc.col) >= 6

\* the z-score rule has flagged a row of a column with exactly 5 values, a row the
\* IQR rule flags as well
FiveValuesZScoreAddsNothingWitness ==
    /\ Iterated
    /\ Count(before, loc.col) = 5
    /\ True(loc.z_mask) # {}
    /\ True(loc.z_mask) \subseteq True(loc.iqr_mask)

----------------------------------------------------------------------------
(* The loader, src/src/extract.py.                                               *)
(*                                                                               *)
(* heap[df] is what the path names: nothing ("missing"), something that cannot   *)
(* be read as text, such as a directory or undecodable bytes ("unreadable"), or  *)
(* a text file: a sequence of lines, each the sequence of its fields (the texts  *)
(* between the commas); a blank line has no field.  A field is empty or holds a  *)
(* numeral.                                                                      *)

MaxLines == 3
MaxFields == 2

FieldTexts == {"", "7"}
Numerals == ("7" :> 7)

Missing == [kind |-> "missing", lines |-> <<>>]
Unreadable == [kind |-> "unreadable", lines |-> <<>>]
TextFile(lines) == [kind |-> "text", lines |-> lines]

CsvLines == UNION {[1..k -> FieldTexts] : k \in 0..MaxFields}
Paths ==
    {Missing, Unreadable} \cup UNION {{TextFile(ls) : ls \in [1..n -> CsvLines]} : n \in 0..MaxLines}

\* a variant of PathExists that finds every path
PathExistsAlways(f) == TRUE

\* line 16: path.exists()
PathExists(f) == f.kind # "missing"

\* skip_blank_lines=True: the lines that hold at least one field
NonBlank(lines) == SelectSeq(lines, LAMBDA l : l # <<>>)

\* a field as a cell: the empty field is a missing value, a numeral its number
ParseField(t) == IF t = "" THEN NaN ELSE <<Numerals[t]>>

\* the name of column j (from 1) of the header: an empty name becomes "Unnamed: j-1",
\* the k-th repetition of a name gets the suffix ".k"
Unnamed == <<"Unnamed: 0", "Unnamed: 1", "Unnamed: 2">>
Repeated == <<"7.1", "7.2">>
HeaderName(header, j) ==
    LET earlier == Cardinality({i \in 1..(j - 1) : header[i] = header[j]})
    IN  IF header[j] = "" THEN Unnamed[j]
        ELSE IF earlier = 0 THEN header[j]
        ELSE Repeated[earlier]

\* field k of a data row, a missing value where the row is too short
FieldAt(row, k) == IF k <= Len(row) THEN ParseField(row[k]) ELSE NaN

\* pd.read_csv(path) with its defaults.  The first non-blank line is the header.  The
\* number of fields expected of a row is that of the header, or of the first data row
\* when that one is longer, in which case its leading fields are the row labels;
\* a shorter row is filled with missing values, a longer one is a ParserError.
\* A file without a non-blank line is an EmptyDataError.
ReadCsv(f) ==
    LET lines  == NonBlank(f.lines)
        header == lines[1]
        rows   == Tail(lines)
        width  == IF rows # <<>> /\ Len(rows[1]) > Len(header) THEN Len(rows[1]) ELSE Len(header)
        lead   == width - Len(header)
        nobody == [index |-> <<>>, columns |-> <<>>]
    IN  IF f.kind # "text" THEN [ok |-> FALSE, frame |-> nobody]
        ELSE IF lines = <<>> THEN [ok |-> FALSE, frame |-> nobody]
        ELSE IF \E r \in 1..Len(rows) : Len(rows[r]) > width THEN [ok |-> FALSE, frame |-> nobody]
        ELSE [ok |-> TRUE,
              frame |->
                [index   |-> IF lead = 0 THEN RangeIndex(Len(rows))
                             ELSE [r \in 1..Len(rows) |->
                                     [k \in 1..lead |-> FieldAt(rows[r], k)]],
                 columns |-> [j \in 1..Len(header) |->
                                [name   |-> HeaderName(header, j),
                                 dtype  |-> "number",
                                 values |-> [r \in 1..Len(rows) |->
                                               FieldAt(rows[r], lead + j)]]]]]

\* the caller holds a path and has not called yet
InitExtract == \E f \in Paths : Start(f)

\* a raise statement of load_raw_csv
Raise(f, why, exception) ==
    /\ pc' = "raised"
    /\ history' = Append(history, [input |-> f, path |-> why, raised |-> exception])
    /\ UNCHANGED <<heap, ret>>

\* load_raw_csv(path): lines 14-27
LoadRawCsv ==
    /\ pc = "idle"
    /\ calls' = calls + 1
    /\ before' = heap[df]
    /\ LET f == heap[df]
           r == ReadCsv(f)
       IN  IF ~PathExists(f) THEN Raise(f, "not found", "FileNotFoundError")
           ELSE IF ~r.ok THEN Raise(f, "not read", "ValueError")
           ELSE IF IsEmpty(r.frame) THEN Raise(f, "empty", "ValueError")
           ELSE /\ heap' = Append(heap, r.frame)
                /\ ret' = <<Len(heap) + 1>>
                /\ pc' = "done"
                /\ history' = Append(history, [input |-> f, path |-> "read", raised |-> "",
                                               output |-> r.frame])
    /\ UNCHANGED <<df, numeric_cols, col_i, anomaly_mask, loc>>

NextExtract == LoadRawCsv

SpecExtract == InitExtract /\ [][NextExtract]_vars

\* the data rows of a text file: its non-blank lines after the header
DataRows(f) == IF NonBlank(f.lines) = <<>> THEN 0 ELSE Len(NonBlank(f.lines)) - 1

Called == calls >= 1 /\ pc \in {"done", "raised"}

\* C12: load_raw_csv raises FileNotFoundError when the path names nothing; raises
\* ValueError when the path names something that cannot be parsed or that parses to
\* no data row; and returns only for a file that exists and has at least one data
\* row, the dataset returned having those rows and so never being empty.
LoadFailsDistinctly ==
    Called =>
        /\ before.kind = "missing" => pc = "raised" /\ Latest.raised = "FileNotFoundError"
        /\ before.kind # "missing" /\ (~ReadCsv(before).ok \/ DataRows(before) = 0)
              => pc = "raised" /\ Latest.raised = "ValueError"
        /\ pc = "done" =>
              /\ before.kind = "text"
              /\ DataRows(before) >= 1
              /\ NRows(heap[ret[1]]) = DataRows(before)
              /\ NCols(heap[ret[1]]) >= 1
              /\ ~IsEmpty(heap[ret[1]])

\* a file with a header and blank lines only has been refused as empty
LoadFailsDistinctlyWitness ==
    /\ Called
    /\ before.kind = "text"
    /\ Len(before.lines) >= 2
    /\ Len(NonBlank(before.lines)) = 1
    /\ pc = "raised"
    /\ Latest.raised = "ValueError"
    /\ Latest.path = "empty"

----------------------------------------------------------------------------
(* The cleaner, src/src/clean.py.                                                *)
(*                                                                               *)
(* Texts are the strings of the datasets below, and the string methods of the    *)
(* code are given by their results on these strings.  A missing value that was   *)
(* filled with a mean holds that mean as a fraction in lowest terms.  The code   *)
(* fills a column in place through df[col], which reaches the frame in the       *)
(* pandas versions the tests of the repository pass on (before copy-on-write).   *)

MaxRecords == 3

TextCells == {NaN, <<"A">>, <<" A ">>, <<"7">>}
TeamCells == {NaN, <<"MIN">>, <<"Minnesota Lynx">>}

ObjectColumn(name, cells) == [name |-> name, dtype |-> "object", values |-> cells]

\* the dataset of test_handle_missing_values, the points rounded to whole numbers
MissingFixture ==
    Frame(RangeIndex(3),
          <<ObjectColumn("player_name", << <<"A">>, NaN, <<"B">> >>),
            NumberColumn("points_per_game", << <<27>>, NaN, <<20>> >>),
            ObjectColumn("team", << <<"LVA">>, <<"MIN">>, NaN >>)>>)

\* str.strip()
StrStrip(s) ==
    CASE s = " A " -> "A"
      [] s = " TEAM " -> "TEAM"
      [] s = " " -> ""
      [] OTHER -> s

\* str.lower()
StrLower(s) ==
    CASE s = "Player Name" -> "player name"
      [] s = "TEAM" -> "team"
      [] OTHER -> s

\* str.replace(" ", "_") and str.replace("-", "_")
StrUnderscore(s) ==
    CASE s = "player name" -> "player_name"
      [] s = "points-per-game" -> "points_per_game"
      [] OTHER -> s

\* astype(str) of a cell of an object column: a missing value becomes the text "nan"
AsStr(c) == IF IsNa(c) THEN "nan" ELSE c[1]

\* pd.to_numeric of a text: a numeral is its number, "nan" is a missing value,
\* anything else is refused
IsNumeric(s) == s \in DOMAIN Numerals \/ s = "nan"
ToNumeric(s) == IF s = "nan" THEN NaN ELSE <<Numerals[s]>>

\* TEAM_MAP, lines 95-109
TeamMap(s) ==
    CASE s \in {"MIN", "Min", "Minnesota", "Minnesota Lynx"} -> "Minnesota Lynx"
      [] s \in {"LVA", "LV", "Las Vegas", "Las Vegas Aces"} -> "Las Vegas Aces"
      [] s \in {"ATL", "Atlanta", "Atlanta Dream"} -> "Atlanta Dream"
      [] OTHER -> s

RECURSIVE Gcd(_, _)
Gcd(a, b) == IF b = 0 THEN a ELSE Gcd(b, a % b)

\* Series.mean() of a column with at least one value
MeanOf(xs) ==
    LET g == Gcd(Len(xs), SeqSum(xs))
    IN  [num |-> SeqSum(xs) \div g, den |-> Len(xs) \div g]

PresentOf(col) ==
    LET keep == SelectSeq(col.values, LAMBDA c : ~IsNa(c))
    IN  [k \in 1..Len(keep) |-> keep[k][1]]

\* a variant of FillNaMean that fills with the first value of the column
FillNaFirst(col) ==
    LET xs == PresentOf(col)
    IN  IF xs = <<>> THEN col
        ELSE [col EXCEPT !.values =
                [i \in 1..Len(col.values) |->
                    IF IsNa(col.values[i]) THEN <<[num |-> xs[1], den |-> 1]>>
                    ELSE col.values[i]]]

\* lines 46-47: df[col].fillna(df[col].mean(), inplace=True) when a value is missing;
\* the mean of a column without a value is itself missing, and the fill changes nothing
FillNaMean(col) ==
    LET xs == PresentOf(col)
    IN  IF xs = <<>> THEN col
        ELSE [col EXCEPT !.values =
                [i \in 1..Len(col.values) |->
                    IF IsNa(col.values[i]) THEN <<MeanOf(xs)>> ELSE col.values[i]]]

\* line 52: df[col].fillna("Unknown", inplace=True)
FillNaUnknown(col) ==
    [col EXCEPT !.values =
        [i \in 1..Len(col.values) |->
            IF IsNa(col.values[i]) THEN <<"Unknown">> ELSE col.values[i]]]

\* lines 44-52, on the copy made at line 41
HandleMissing(d) ==
    [d EXCEPT !.columns =
        [j \in 1..NCols(d) |->
            IF d.columns[j].dtype = "number" THEN FillNaMean(d.columns[j])
            ELSE FillNaUnknown(d.columns[j])]]

\* lines 59-68
StandardizeColumnNames(d) ==
    [d EXCEPT !.columns =
        [j \in 1..NCols(d) |->
            [d.columns[j] EXCEPT !.name = StrUnderscore(StrLower(StrStrip(@)))]]]

\* lines 73-77: df[col] = df[col].astype(str).str.strip() for the object columns
TrimWhitespace(d) ==
    [d EXCEPT !.columns =
        [j \in 1..NCols(d) |->
            IF d.columns[j].dtype = "object"
            THEN [d.columns[j] EXCEPT !.values =
                    [i \in 1..NRows(d) |-> <<StrStrip(AsStr(d.columns[j].values[i]))>>]]
            ELSE d.columns[j]]]

\* lines 82-89: pd.to_numeric column by column, a refused column left as it is
FixDtypes(d) ==
    [d EXCEPT !.columns =
        [j \in 1..NCols(d) |->
            IF /\ d.columns[j].dtype = "object"
               /\ \A i \in 1..NRows(d) :
                    ~IsNa(d.columns[j].values[i]) /\ IsNumeric(d.columns[j].values[i][1])
            THEN [name   |-> d.columns[j].name,
                  dtype  |-> "number",
                  values |-> [i \in 1..NRows(d) |-> ToNumeric(d.columns[j].values[i][1])]]
            ELSE d.columns[j]]]

\* lines 111-115: the texts of the column "team" or "team_name" replaced through TEAM_MAP
NormalizeTeamNames(d) ==
    [d EXCEPT !.columns =
        [j \in 1..NCols(d) |->
            IF d.columns[j].name \in {"team", "team_name"} /\ d.columns[j].dtype = "object"
            THEN [d.columns[j] EXCEPT !.values =
                    [i \in 1..NRows(d) |->
                        IF IsNa(d.columns[j].values[i]) THEN NaN
                        ELSE <<TeamMap(d.columns[j].values[i][1])>>]]
            ELSE d.columns[j]]]

RowOf(d, i) == [j \in 1..NCols(d) |-> d.columns[j].values[i]]

\* line 125: df.drop_duplicates(): of equal rows the first is kept, with its label
RemoveDuplicates(d) ==
    Take(d, {i \in 1..NRows(d) : \A h \in 1..(i - 1) : RowOf(d, h) # RowOf(d, i)})

\* lines 134-139
CleanFrame(d) ==
    HandleMissing(RemoveDuplicates(NormalizeTeamNames(FixDtypes(TrimWhitespace(
        StandardizeColumnNames(d))))))

\* Raw datasets: a name column and a points column; a team column alone, on rows
\* left over from a filter; and the dataset of the test.
InitClean ==
    \/ Start(MissingFixture)
    \/ \E n \in 0..MaxRecords :
          \/ \E a \in [1..n -> TextCells], b \in Columns(n) :
                Start(Frame(RangeIndex(n), <<ObjectColumn("Player Name", a),
                                             NumberColumn("points-per-game", b)>>))
          \/ \E t \in [1..n -> TeamCells] :
                Start(Frame(FilteredIndex(n), <<ObjectColumn(" TEAM ", t)>>))

\* cleaner.handle_missing_values(df): lines 40-54
HandleMissingValues ==
    /\ pc = "idle"
    /\ calls' = calls + 1
    /\ before' = heap[df]
    /\ LET cp == CopyFrame(heap, df)
       IN  /\ heap' = [cp.heap EXCEPT ![cp.ref] = HandleMissing(@)]
           /\ ret' = <<cp.ref>>
           /\ history' = Append(history,
                           [input |-> heap[df], path |-> "handle_missing_values",
                            output |-> HandleMissing(cp.heap[cp.ref])])
    /\ pc' = "done"
    /\ UNCHANGED <<df, numeric_cols, col_i, anomaly_mask, loc>>

\* cleaner.clean(df): lines 133-140; the frames of the steps in between are dropped
Clean ==
    /\ pc = "idle"
    /\ calls' = calls + 1
    /\ before' = heap[df]
    /\ heap' = Append(heap, CleanFrame(heap[df]))
    /\ ret' = <<Len(heap) + 1>>
    /\ history' = Append(history,
                    [input |-> heap[df], path |-> "clean", output |-> CleanFrame(heap[df])])
    /\ pc' = "done"
    /\ UNCHANGED <<df, numeric_cols, col_i, anomaly_mask, loc>>

NextClean == HandleMissingValues \/ Clean

SpecClean == InitClean /\ [][NextClean]_vars

Filled == pc = "done" /\ Latest.path = "handle_missing_values"
Cleaned == pc = "done" /\ Latest.path = "clean"
MissingAt(d, j) == {i \in Rows(d) : IsNa(d.columns[j].values[i])}
ObjectCols(d) == {j \in 1..NCols(d) : d.columns[j].dtype = "object"}

\* C13: handle_missing_values returns a dataset with the labels, the columns and the
\* non-missing values of its argument, in which a missing value of a numeric column
\* holds the mean of the column's non-missing values (the column is left as it is
\* when it has no value: there is no mean) and a missing value of a text column
\* holds "Unknown"; the argument is not changed.
MissingValuesFilled ==
    Filled =>
        LET out == heap[ret[1]]
        IN  /\ out.index = before.index
            /\ NCols(out) = NCols(before)
            /\ \A j \in 1..NCols(before) :
                  /\ out.columns[j].name = before.columns[j].name
                  /\ out.columns[j].dtype = before.columns[j].dtype
                  /\ \A i \in Rows(before) \ MissingAt(before, j) :
                        out.columns[j].values[i] = before.columns[j].values[i]
            /\ \A j \in NumberCols(before) : \A i \in MissingAt(before, j) :
                  IF Count(before, j) = 0 THEN IsNa(out.columns[j].values[i])
                  ELSE /\ ~IsNa(out.columns[j].values[i])
                       /\ out.columns[j].values[i][1].den > 0
                       /\ out.columns[j].values[i][1].num * Count(before, j)
                            = out.columns[j].values[i][1].den * SeqSum(PresentValues(before, j))
            /\ \A j \in ObjectCols(before) : \A i \in MissingAt(before, j) :
                  out.columns[j].values[i] = <<"Unknown">>
            /\ heap[df] = before
            /\ ret[1] # df

\* a numeric and a text column have both been filled, the mean not a whole number
MissingValuesFilledWitness ==
    /\ Filled
    /\ \E j \in NumberCols(before) : \E i \in MissingAt(before, j) :
          /\ Count(before, j) >= 2
          /\ heap[ret[1]].columns[j].values[i][1].den = 2
    /\ \E j \in ObjectCols(before) : \E i \in MissingAt(before, j) :
          heap[ret[1]].columns[j].values[i] = <<"Unknown">>

\* C15: after clean, an entry of a text column that was missing in the raw dataset
\* holds "Unknown" (the rows are followed by their labels, which clean keeps).
MissingTextBecomesUnknown ==
    Cleaned =>
        \A j \in ObjectCols(before) : \A i \in MissingAt(before, j) :
            \A k \in Rows(heap[ret[1]]) :
                heap[ret[1]].index[k] = before.index[i] =>
                    /\ heap[ret[1]].columns[j].dtype = "object"
                    /\ heap[ret[1]].columns[j].values[k] = <<"Unknown">>

\* what clean does with such an entry: it holds the text "nan", or, in a column whose
\* other entries are all numerals, the mean of these (nothing when there is none)
MissingTextBecomesNan ==
    Cleaned =>
        \A j \in ObjectCols(before) : \A i \in MissingAt(before, j) :
            \A k \in Rows(heap[ret[1]]) :
                heap[ret[1]].index[k] = before.index[i] =>
                    IF heap[ret[1]].columns[j].dtype = "object"
                    THEN heap[ret[1]].columns[j].values[k] = <<"nan">>
                    ELSE \A h \in Rows(before) \ MissingAt(before, j) :
                            IsNumeric(before.columns[j].values[h][1])

----------------------------------------------------------------------------
(* The validator, src/src/validate.py.                                           *)
(*                                                                               *)
(* The heap holds the dataset of the call (heap[df]), the DataValidator object   *)
(* (heap[Validator], whose field errors is the reference of a list) and the      *)
(* lists of errors, each a sequence of records.  An error is the dict of lines   *)
(* 49-55 without its message, which is a text made of the other entries; row and *)
(* column are <<>> for None, else <<label>> and <<name>>.                        *)

MaxPlayers == 2

Validator == 2
MaxPlayersPerTeam == 20

None == <<>>

Error(code, severity, row, column) ==
    [row |-> row, column |-> column, severity |-> severity, code |-> code]

RECURSIVE Flatten(_)
Flatten(ss) == IF ss = <<>> THEN <<>> ELSE Head(ss) \o Flatten(Tail(ss))

ColumnNamed(d, name) == CHOOSE j \in 1..NCols(d) : d.columns[j].name = name
CellOf(d, name, i) == d.columns[ColumnNamed(d, name)].values[i]

\* lines 61-77
RequiredColumns == <<"player_name", "team", "points_per_game", "games_played">>
CheckRequiredColumns(d) ==
    Flatten([k \in 1..Len(RequiredColumns) |->
        IF HasColumn(d, RequiredColumns[k]) THEN <<>>
        ELSE <<Error("MISSING_COLUMN", "ERROR", None, <<RequiredColumns[k]>>)>>])

\* lines 87-92
RangeRules ==
    <<[col |-> "points_per_game", min |-> 0, max |-> 60],
      [col |-> "assists_per_game", min |-> 0, max |-> 20],
      [col |-> "rebounds_per_game", min |-> 0, max |-> 30],
      [col |-> "games_played", min |-> 0, max |-> 50]>>

\* lines 103-124, for one value: float(value) takes a number and a numeral, and
\* "nan", which no comparison finds out of range; any other text is refused
RangeErrors(d, rule, i) ==
    LET j == ColumnNamed(d, rule.col)
        c == d.columns[j].values[i]
        outside(v) == v < rule.min \/ v > rule.max
        out == <<Error("OUT_OF_RANGE", "ERROR", <<d.index[i]>>, <<rule.col>>)>>
    IN  IF IsNa(c) THEN <<>>
        ELSE IF d.columns[j].dtype = "number" THEN (IF outside(c[1]) THEN out ELSE <<>>)
        ELSE IF c[1] = "nan" THEN <<>>
        ELSE IF c[1] \in DOMAIN Numerals THEN (IF outside(Numerals[c[1]]) THEN out ELSE <<>>)
        ELSE <<Error("INVALID_NUMERIC", "ERROR", <<d.index[i]>>, <<rule.col>>)>>

\* lines 82-124
CheckNumericRanges(d) ==
    Flatten([k \in 1..Len(RangeRules) |->
        IF HasColumn(d, RangeRules[k].col)
        THEN Flatten([i \in 1..NRows(d) |-> RangeErrors(d, RangeRules[k], i)])
        ELSE <<>>])

AllowedTeams == {"Minnesota Lynx", "Las Vegas Aces", "Atlanta Dream"}
AllowedPositions == {"G", "F", "C", "G/F", "F/C"}

\* lines 142-152 and 158-168
NotAllowed(d, name, allowed, code) ==
    IF HasColumn(d, name)
    THEN Flatten([i \in 1..NRows(d) |->
            IF ~IsNa(CellOf(d, name, i)) /\ CellOf(d, name, i)[1] \notin allowed
            THEN <<Error(code, "WARNING", <<d.index[i]>>, <<name>>)>>
            ELSE <<>>])
    ELSE <<>>

\* lines 129-168
CheckAllowedValues(d) ==
    NotAllowed(d, "team", AllowedTeams, "INVALID_TEAM")
        \o NotAllowed(d, "position", AllowedPositions, "INVALID_POSITION")

\* str(x).strip() == ""
IsBlank(s) == StrStrip(s) = ""

\* a team that is missing, blank or "Unknown": the test of line 182, made on the team
TeamIsMissingOrUnknown(c) == IsNa(c) \/ IsBlank(c[1]) \/ c[1] = "Unknown"

\* line 182
NameIsMissing(c) == IsNa(c) \/ IsBlank(c[1]) \/ c[1] = "Unknown"

\* line 193
TeamIsMissing(c) == IsNa(c) \/ IsBlank(c[1])

\* lines 173-200: row by row, the name and then the team
CheckMissingCriticalValues(d) ==
    Flatten([i \in 1..NRows(d) |->
        (IF HasColumn(d, "player_name") /\ NameIsMissing(CellOf(d, "player_name", i))
         THEN <<Error("MISSING_PLAYER_NAME", "ERROR", <<d.index[i]>>, <<"player_name">>)>>
         ELSE <<>>)
        \o (IF HasColumn(d, "team") /\ TeamIsMissing(CellOf(d, "team", i))
            THEN <<Error("MISSING_TEAM", "ERROR", <<d.index[i]>>, <<"team">>)>>
            ELSE <<>>)])

\* lines 205-227: df.duplicated(subset=["player_name", "team"], keep=False)
CheckDuplicates(d) ==
    IF ~HasColumn(d, "team") \/ ~HasColumn(d, "player_name") THEN <<>>
    ELSE LET key(i) == <<CellOf(d, "player_name", i), CellOf(d, "team", i)>>
         IN  Flatten([i \in 1..NRows(d) |->
                IF \E h \in 1..NRows(d) : h # i /\ key(h) = key(i)
                THEN <<Error("DUPLICATE_PLAYER", "WARNING", <<d.index[i]>>, None)>>
                ELSE <<>>])

\* the team names of the datasets, in the order groupby sorts them
TeamOrder ==
    <<" ", "Atlanta Dream", "Las Vegas Aces", "Mars Meteors", "Minnesota Lynx", "Unknown">>

\* lines 232-256: df.groupby("team")["player_name"].nunique() leaves out the rows
\* without a team and counts the different names that are not missing
CheckDatasetLevel(d) ==
    IF NRows(d) = 0 THEN <<Error("EMPTY_DATASET", "ERROR", None, None)>>
    ELSE IF ~HasColumn(d, "team") \/ ~HasColumn(d, "player_name") THEN <<>>
    ELSE Flatten([k \in 1..Len(TeamOrder) |->
            LET names == {CellOf(d, "player_name", i) :
                            i \in {r \in 1..NRows(d) : CellOf(d, "team", r) = <<TeamOrder[k]>>}}
            IN  IF Cardinality(names \ {NaN}) > MaxPlayersPerTeam
                THEN <<Error("TOO_MANY_PLAYERS", "WARNING", None, <<"team">>)>>
                ELSE <<>>])

\* lines 48-56: self.errors.append(...), for each error a check adds
AddErrors(h, errors) == [h EXCEPT ![h[Validator].errors] = @ \o errors]

\* a variant of ResetErrors that empties the list the validator holds
ClearErrors(h) == [h EXCEPT ![h[Validator].errors] = <<>>]

\* line 262: self.errors = [], a new list
ResetErrors(h) == Append([h EXCEPT ![Validator].errors = Len(h) + 1], <<>>)

\* lines 262-269
RunChecks(h, d) ==
    AddErrors(AddErrors(AddErrors(AddErrors(AddErrors(AddErrors(ResetErrors(h),
        CheckRequiredColumns(d)), CheckNumericRanges(d)), CheckAllowedValues(d)),
        CheckMissingCriticalValues(d)), CheckDuplicates(d)), CheckDatasetLevel(d))

NameCells == {NaN, <<" ">>, <<"Unknown">>, <<"A">>}
TeamValues == {NaN, <<" ">>, <<"Unknown">>, <<"Las Vegas Aces">>, <<"Mars Meteors">>}

Player(name, team, points, games) ==
    Frame(RangeIndex(1),
          <<ObjectColumn("player_name", << <<name>> >>), ObjectColumn("team", << <<team>> >>),
            NumberColumn("points_per_game", << <<points>> >>),
            NumberColumn("games_played", << <<games>> >>)>>)

\* the datasets of tests/test_validate.py (26.9 points as 27), and one without rows
ValidateFixtures ==
    {Frame(RangeIndex(1), <<ObjectColumn("player_name", << <<"A">> >>)>>),
     Player("A", "Minnesota Lynx", 120, 10),
     Player("A", "Mars Meteors", 10, 5),
     Player("A", "Las Vegas Aces", 27, 30),
     Frame(<<>>, <<>>)}

\* datasets with a position, with points held as texts, and with filtered rows
MoreFixtures ==
    {Frame(FilteredIndex(2),
           <<ObjectColumn("player_name", << <<"A">>, <<"A">> >>),
             ObjectColumn("team", << <<"Atlanta Dream">>, <<"Atlanta Dream">> >>),
             ObjectColumn("position", << <<"G">>, <<"X">> >>),
             ObjectColumn("points_per_game", << <<"7">>, <<"x">> >>)>>),
     Frame(FilteredIndex(3),
           <<ObjectColumn("player_name", << <<"A">>, <<"B">>, NaN >>),
             ObjectColumn("team", << <<"Unknown">>, NaN, <<"Minnesota Lynx">> >>),
             ObjectColumn("points_per_game", << <<"nan">>, NaN, <<"7">> >>),
             NumberColumn("games_played", << <<51>>, <<0>>, NaN >>)>>)}

\* validator = DataValidator(), and the caller holds dataset d
StartValidation(d) ==
    /\ heap = <<d, [errors |-> 3], <<>> >>
    /\ df = 1
    /\ ret = <<>>
    /\ pc = "idle"
    /\ numeric_cols = <<>>
    /\ col_i = 0
    /\ anomaly_mask = <<>>
    /\ loc = NoLocals
    /\ before = d
    /\ history = <<>>
    /\ calls = 0

InitValidate ==
    \/ \E d \in ValidateFixtures \cup MoreFixtures : StartValidation(d)
    \/ \E n \in 1..MaxPlayers : \E a \in [1..n -> NameCells], t \in [1..n -> TeamValues] :
          StartValidation(Frame(RangeIndex(n), <<ObjectColumn("player_name", a),
                                                 ObjectColumn("team", t)>>))

\* validator.validate(df): lines 261-271
Validate ==
    /\ pc = "idle"
    /\ calls' = calls + 1
    /\ before' = heap[df]
    /\ heap' = RunChecks(heap, heap[df])
    /\ ret' = <<heap'[Validator].errors>>
    /\ history' = Append(history,
                    [input |-> heap[df], path |-> "validate",
                     output |-> heap'[Validator].errors,
                     errors |-> heap'[heap'[Validator].errors]])
    /\ pc' = "done"
    /\ UNCHANGED <<df, numeric_cols, col_i, anomaly_mask, loc>>

\* the caller keeps the list it was returned and comes with another dataset
CallerValidatesAgain ==
    /\ pc = "done"
    /\ calls < MaxCalls
    /\ \E d \in ValidateFixtures :
          /\ heap' = Append(heap, d)
          /\ df' = Len(heap) + 1
    /\ ret' = <<>>
    /\ pc' = "idle"
    /\ UNCHANGED <<numeric_cols, col_i, anomaly_mask, loc, before, history, calls>>

NextValidate == Validate \/ CallerValidatesAgain

SpecValidate == InitValidate /\ [][NextValidate]_vars

Validated == pc = "done" /\ Latest.path = "validate"
Recorded(code, label) ==
    \E k \in 1..Len(heap[ret[1]]) :
        heap[ret[1]][k].code = code /\ heap[ret[1]][k].row = <<label>>

\* C14: after validation, for every row whose player_name is missing, blank or
\* "Unknown" a MISSING_PLAYER_NAME error is recorded for the row, and for every row
\* whose team is missing, blank or "Unknown" a MISSING_TEAM error is recorded.
MissingCriticalValuesReported ==
    Validated =>
        \A i \in Rows(before) :
            /\ HasColumn(before, "player_name")
                  /\ NameIsMissing(CellOf(before, "player_name", i))
                  => Recorded("MISSING_PLAYER_NAME", before.index[i])
            /\ HasColumn(before, "team")
                  /\ TeamIsMissingOrUnknown(CellOf(before, "team", i))
                  => Recorded("MISSING_TEAM", before.index[i])

\* what is recorded: the name as C14 says, the team when it is missing or blank only
MissingCriticalValuesReportedButUnknownTeam ==
    Validated =>
        \A i \in Rows(before) :
            /\ HasColumn(before, "player_name") =>
                  (NameIsMissing(CellOf(before, "player_name", i))
                      <=> Recorded("MISSING_PLAYER_NAME", before.index[i]))
            /\ HasColumn(before, "team") =>
                  ((IsNa(CellOf(before, "team", i)) \/ CellOf(before, "team", i) = <<" ">>)
                      <=> Recorded("MISSING_TEAM", before.index[i]))

\* the errors of a dataset: what each of the six checks finds in it, in order
ErrorsOf(d) ==
    CheckRequiredColumns(d) \o CheckNumericRanges(d) \o CheckAllowedValues(d)
        \o CheckMissingCriticalValues(d) \o CheckDuplicates(d) \o CheckDatasetLevel(d)

\* C20: the list returned by the latest validate call holds exactly the errors of
\* the dataset of that call, and every list returned by an earlier call on the same
\* validator still holds what it held when it was returned.
ValidateReturnsOwnErrors ==
    /\ \A h \in 1..Len(history) : heap[history[h].output] = history[h].errors
    /\ Validated =>
          /\ ret[1] = heap[Validator].errors
          /\ heap[ret[1]] = ErrorsOf(before)

\* a second call has returned other errors than the first, which had found some
ValidateReturnsOwnErrorsWitness ==
    /\ Validated
    /\ Len(history) >= 2
    /\ history[1].errors # <<>>
    /\ heap[ret[1]] # history[1].errors
    /\ heap[ret[1]] # <<>>

====
